---- MODULE Spec2Model ----
(***************************************************************************)
(* Dynamic-value runtime of the hpi C transpiler (libSAP): type            *)
(* descriptors, runtime cast validation, the AnyObject store and the       *)
(* JSON -> AnyValue bridge.                                                *)
(*                                                                         *)
(* Pointers are heap addresses: mem is the sequence of payload boxes       *)
(* (address = index, NULL = 0), objs the sequence of AnyObject structs.    *)
(* An optional pointer to a nested descriptor (list_inner, obj_fields) is  *)
(* a sequence of length 0 (NULL) or 1.                                     *)
(***************************************************************************)
EXTENDS Integers, Sequences, FiniteSets, TLC

VARIABLES mem, objs, held, last, recent, as_type, from_type, cast

vars == <<mem, objs, held, last, recent, as_type, from_type, cast>>

storeVars == <<mem, objs, held, last, recent>>
castVars == <<as_type, from_type, cast>>

NULL == 0

----------------------------------------------------------------------------
(* Bounds *)
MaxPtr == 1
MaxArrayLen == 2
MaxCells == 3
MaxObjs == 1
Depth == 4

----------------------------------------------------------------------------
(* Type descriptors *)

TYPE_NONE == "TYPE_NONE"
TYPE_INT == "TYPE_INT"
TYPE_FLOAT == "TYPE_FLOAT"
TYPE_CHAR == "TYPE_CHAR"
TYPE_BOOL == "TYPE_BOOL"
TYPE_LIST == "TYPE_LIST"
TYPE_OBJECT == "TYPE_OBJECT"
TYPE_ANY_OBJECT == "TYPE_ANY_OBJECT"
TYPE_STRING == "TYPE_STRING"

TypeKind == {TYPE_NONE, TYPE_INT, TYPE_FLOAT, TYPE_CHAR, TYPE_BOOL,
             TYPE_LIST, TYPE_OBJECT, TYPE_ANY_OBJECT, TYPE_STRING}

TypeDescriptor(k, p, inner, flds) ==
    [kind |-> k, ptr_count |-> p, list_inner |-> inner, obj_fields |-> flds]

\* Kinds that carry no nested descriptor.
FlatKinds == TypeKind \ {TYPE_LIST, TYPE_OBJECT}

FlatDescriptors == {TypeDescriptor(k, p, <<>>, <<>>) : k \in FlatKinds, p \in 0..MaxPtr}

\* Element / field descriptors used to build the composite ones.
InnerDescriptors == {TypeDescriptor(k, 0, <<>>, <<>>) : k \in {TYPE_INT, TYPE_STRING}}

FieldNames == {"x"}

ListDescriptors ==
    {TypeDescriptor(TYPE_LIST, p, <<e>>, <<>>) : e \in InnerDescriptors, p \in 0..MaxPtr}

ObjectDescriptors ==
    {TypeDescriptor(TYPE_OBJECT, p, <<>>, <<f>>) :
        f \in UNION {[n -> InnerDescriptors] : n \in SUBSET FieldNames}, p \in 0..MaxPtr}

Descriptors == FlatDescriptors \cup ListDescriptors \cup ObjectDescriptors

----------------------------------------------------------------------------
(* Cast validator *)

\* A validator that also compares the nested types of equal kinds.
validate_structural(as, from) ==
    IF as.kind = from.kind
    THEN IF as.list_inner = from.list_inner /\ as.obj_fields = from.obj_fields
         THEN "ok" ELSE "fail"
    ELSE IF as.ptr_count # from.ptr_count THEN "fail" ELSE "ok"

\* "ok" is the plain return, "fail" the fail: label (diagnostic and exit(-1)).
validate_runtime_cast(as, from) ==
    IF as.kind = from.kind
    THEN "ok"
    ELSE IF as.ptr_count # from.ptr_count
         THEN "fail"
         ELSE CASE from.kind = TYPE_LIST -> "ok"
                [] from.kind = TYPE_OBJECT -> "ok"
                [] OTHER -> "ok"

NoDescriptor == TypeDescriptor(TYPE_NONE, 0, <<>>, <<>>)

ValidateCast ==
    /\ \E a \in Descriptors, f \in Descriptors :
          /\ as_type' = a
          /\ from_type' = f
          /\ cast' = validate_runtime_cast(a, f)
    /\ UNCHANGED storeVars

----------------------------------------------------------------------------
(* Strings: a C string is its characters followed by the terminator 0,     *)
(* a DynString holds the characters only.                                  *)

KeyA == <<97, 0>>
KeyB == <<98, 0>>
StrX == <<120, 0>>

Keys == {KeyA, KeyB}
KeyList == <<KeyA, KeyB>>

RECURSIVE cstr_len(_, _)
cstr_len(s, i) == IF i > Len(s) \/ s[i] = 0 THEN i - 1 ELSE cstr_len(s, i + 1)

dynstring_from(cstr) == SubSeq(cstr, 1, cstr_len(cstr, 1))

dynstring_as_cstr(dyn) == dyn \o <<0>>

DynKeys == {dynstring_from(k) : k \in Keys}

----------------------------------------------------------------------------
(* The external containers: string-keyed map and ordered sequence          *)

hashmap_new == <<>>

hashmap_insert(map, key, value) ==
    [k \in DOMAIN map \cup {key} |-> IF k = key THEN value ELSE map[k]]

hashmap_get(map, key) ==
    [found |-> key \in DOMAIN map,
     value |-> IF key \in DOMAIN map THEN <<map[key]>> ELSE <<>>]

Reverse(s) == [i \in 1..Len(s) |-> s[Len(s) + 1 - i]]

\* Enumeration order is not specified: ord selects one of the orders.
EnumOrders == {"fwd", "rev"}

hashmap_keys(map, ord) ==
    SelectSeq(IF ord = "fwd" THEN KeyList ELSE Reverse(KeyList),
              LAMBDA k : k \in DOMAIN map)

list_new == <<>>

list_append(list, item) == Append(list, item)

----------------------------------------------------------------------------
(* Dynamic values and the heap                                             *)

AnyValue(t, v) == [type |-> t, value |-> v]

\* A payload box: tag names the C type written through the void pointer.
Cell(tag, num, b, str, elems, obj) ==
    [tag |-> tag, num |-> num, bool |-> b, str |-> str, elems |-> elems, obj |-> obj]

\* A None value as generated code builds it.
NoneValue == AnyValue(TypeDescriptor(TYPE_NONE, 0, <<>>, <<>>), NULL)

----------------------------------------------------------------------------
(* Dynamic object store                                                    *)

anyobj_insert_if_absent(fields, key, value) ==
    IF key \in DOMAIN fields THEN fields ELSE hashmap_insert(fields, key, value)

anyobj_insert(fields, key, value) == hashmap_insert(fields, key, value)

anyobj_new == hashmap_new

take_absent_wrong_kind == AnyValue(TypeDescriptor(TYPE_INT, 0, <<>>, <<>>), NULL)

\* The value built in the else branch: the designated initialiser zeroes
\* every member it does not name.
take_absent == AnyValue(TypeDescriptor(TYPE_NONE, 0, <<>>, <<>>), NULL)

anyobj_take_raw_key(fields, key) ==
    LET res == hashmap_get(fields, key)
    IN  IF res.found THEN res.value[1] ELSE take_absent

anyobj_take(fields, key) ==
    LET key_c == dynstring_as_cstr(key)
        res == hashmap_get(fields, key_c)
    IN  IF res.found THEN res.value[1] ELSE take_absent

anyobj_keys_skip_last(fields, ord) ==
    LET raw_keys == hashmap_keys(fields, ord)
    IN  [i \in 1..(Len(raw_keys) - 1) |-> dynstring_from(raw_keys[i])]

anyobj_keys(fields, ord) ==
    LET raw_keys == hashmap_keys(fields, ord)
    IN  [i \in 1..Len(raw_keys) |-> dynstring_from(raw_keys[i])]

----------------------------------------------------------------------------
(* JSON abstract syntax tree (produced by the external parser)             *)

JSON_TYPE_OBJECT == "JSON_TYPE_OBJECT"
JSON_TYPE_ARRAY == "JSON_TYPE_ARRAY"
JSON_TYPE_INT == "JSON_TYPE_INT"
JSON_TYPE_FLOAT == "JSON_TYPE_FLOAT"
JSON_TYPE_BOOL == "JSON_TYPE_BOOL"
JSON_TYPE_STRING == "JSON_TYPE_STRING"

JsonValue(t, i, f, b, s, arr, obj) ==
    [type |-> t, num_int |-> i, num_float |-> f, boolean |-> b, string |-> s,
     array |-> arr, object |-> obj]

JInt(n) == JsonValue(JSON_TYPE_INT, n, 0, FALSE, <<>>, <<>>, <<>>)
\* f is the literal in tenths; i is what the integer member reads for it.
JFloat(i, f) == JsonValue(JSON_TYPE_FLOAT, i, f, FALSE, <<>>, <<>>, <<>>)
JBool(b) == JsonValue(JSON_TYPE_BOOL, 0, 0, b, <<>>, <<>>, <<>>)
JString(s) == JsonValue(JSON_TYPE_STRING, 0, 0, FALSE, s, <<>>, <<>>)
JArray(a) == JsonValue(JSON_TYPE_ARRAY, 0, 0, FALSE, <<>>, a, <<>>)
JObject(o) == JsonValue(JSON_TYPE_OBJECT, 0, 0, FALSE, <<>>, <<>>, o)

JsonLeaves == {JInt(1), JFloat(7, 15), JBool(TRUE), JString(StrX)}

JsonFieldLeaves == {JInt(1), JString(StrX)}

JsonArraysOver(S, lo) == {JArray(a) : a \in UNION {[1..n -> S] : n \in lo..MaxArrayLen}}

JsonObjectsOver(S) == {JObject(o) : o \in UNION {[ks -> S] : ks \in SUBSET Keys}}

JsonNested == {JArray(<<>>), JArray(<<JInt(1)>>), JObject(hashmap_insert(<<>>, KeyA, JInt(1)))}

JsonInputs ==
    JsonLeaves \cup JsonArraysOver(JsonLeaves, 0) \cup JsonObjectsOver(JsonFieldLeaves)
    \cup JsonArraysOver(JsonNested, 1) \cup JsonObjectsOver(JsonNested)

\* The documents parsed by the program that also uses the object store.
JsonSeeds ==
    {JArray(<<>>), JArray(<<JInt(1), JString(StrX)>>),
     JObject(hashmap_insert(<<>>, KeyA, JInt(1)))}

----------------------------------------------------------------------------
(* JSON bridge                                                             *)

json_object_kind_static == TYPE_OBJECT

json_object_kind == TYPE_ANY_OBJECT

\* The element descriptor before any element is seen: kind is not named by
\* the initialiser and so is the zero enumerator, taken to be TYPE_NONE.
inner_init == TypeDescriptor(TYPE_NONE, 0, <<>>, <<>>)

next_inner_keep_first(inner, converted) ==
    IF inner = inner_init THEN converted.type ELSE inner

next_inner(inner, converted) == converted.type

RECURSIVE from_json(_, _, _, _)
RECURSIVE from_json_fields(_, _, _, _, _, _, _)
RECURSIVE from_json_elems(_, _, _, _, _, _, _)

\* The loop over the keys of a JSON object, from index i on.
from_json_fields(value, keys, i, m, os, any_obj, ord) ==
    IF i > Len(keys)
    THEN [mem |-> m, objs |-> os]
    ELSE LET c == from_json(value.object[keys[i]], m, os, ord)
             os2 == [c.objs EXCEPT ![any_obj] = hashmap_insert(@, keys[i], c.res)]
         IN  from_json_fields(value, keys, i + 1, c.mem, os2, any_obj, ord)

\* The loop over the elements of a JSON array, from index i on.
from_json_elems(value, i, m, os, list_temp, inner, ord) ==
    IF i > Len(value.array)
    THEN [mem |-> m, objs |-> os, list |-> list_temp, inner |-> inner]
    ELSE LET c == from_json(value.array[i], m, os, ord)
         IN  from_json_elems(value, i + 1, c.mem, c.objs,
                             list_append(list_temp, c.res),
                             next_inner(inner, c.res), ord)

\* Returns the converted value with the heap after the allocations.
from_json(value, m, os, ord) ==
    LET leaf(kind, cell) ==
            [res |-> AnyValue(TypeDescriptor(kind, 0, <<>>, <<>>), Len(m) + 1),
             mem |-> Append(m, cell), objs |-> os]
    IN
    CASE value.type = JSON_TYPE_OBJECT ->
           LET any_obj == Len(os) + 1
               keys == hashmap_keys(value.object, ord)
               r == from_json_fields(value, keys, 1, m, Append(os, anyobj_new),
                                     any_obj, ord)
           IN  [res |-> AnyValue(TypeDescriptor(json_object_kind, 0, <<>>, <<>>),
                                 Len(r.mem) + 1),
                mem |-> Append(r.mem, Cell("AnyObject", 0, FALSE, <<>>, <<>>, any_obj)),
                objs |-> r.objs]
      [] value.type = JSON_TYPE_ARRAY ->
           LET r == from_json_elems(value, 1, m, os, list_new, inner_init, ord)
           IN  [res |-> AnyValue(TypeDescriptor(TYPE_LIST, 0, <<r.inner>>, <<>>),
                                 Len(r.mem) + 1),
                mem |-> Append(r.mem, Cell("ListNode", 0, FALSE, <<>>, r.list, 0)),
                objs |-> r.objs]
      [] value.type = JSON_TYPE_INT ->
           leaf(TYPE_INT, Cell("int64_t", value.num_int, FALSE, <<>>, <<>>, 0))
      [] value.type = JSON_TYPE_FLOAT ->
           leaf(TYPE_FLOAT, Cell("double", value.num_int, FALSE, <<>>, <<>>, 0))
      [] value.type = JSON_TYPE_BOOL ->
           leaf(TYPE_BOOL, Cell("bool", 0, value.boolean, <<>>, <<>>, 0))
      [] value.type = JSON_TYPE_STRING ->
           leaf(TYPE_STRING, Cell("DynString", 0, FALSE, dynstring_from(value.string),
                                  <<>>, 0))

----------------------------------------------------------------------------
(* Operations called by generated code                                     *)

NoJson == JInt(0)

\* The most recent call: its arguments and what it returned.  prior tells a
\* take that the call before it was an insert under the same key ("insert",
\* or "overwrite" when that insert replaced a different binding), and then
\* arg is the value that insert stored.
Op(op, obj, key, arg, result, keys, json, prior) ==
    [op |-> op, obj |-> obj, key |-> key, arg |-> arg, result |-> result,
     keys |-> keys, json |-> json, prior |-> prior]

Init ==
    /\ mem = <<>>
    /\ objs = <<>>
    /\ held = {}
    /\ recent = <<>>
    /\ last = Op("init", 0, <<>>, NoneValue, NoneValue, <<>>, NoJson, "")
    /\ as_type = NoDescriptor
    /\ from_type = NoDescriptor
    /\ cast = "none"

New ==
    /\ Len(objs) < MaxObjs
    /\ objs' = Append(objs, anyobj_new)
    /\ recent' = Append(recent, <<>>)
    /\ last' = Op("new", Len(objs) + 1, <<>>, NoneValue, NoneValue, <<>>, NoJson, "")
    /\ UNCHANGED <<mem, held>>
    /\ UNCHANGED castVars

\* The caller passes a value it holds (and keeps its own copy of the struct).
Insert ==
    /\ \E o \in 1..Len(objs), k \in Keys, v \in held \cup {NoneValue} :
          /\ objs' = [objs EXCEPT ![o] = anyobj_insert(@, k, v)]
          /\ recent' = [recent EXCEPT ![o] =
                           [x \in DOMAIN @ \cup {k} |-> IF x = k THEN v ELSE @[x]]]
          /\ last' = Op("insert", o, k, v, NoneValue, <<>>, NoJson,
                        IF k \in DOMAIN objs[o] /\ objs[o][k] # v
                        THEN "overwrite" ELSE "")
    /\ UNCHANGED <<mem, held>>
    /\ UNCHANGED castVars

Take ==
    /\ \E o \in 1..Len(objs), key \in DynKeys :
          LET r == anyobj_take(objs[o], key)
              follows == last.op = "insert" /\ last.obj = o
                         /\ last.key = dynstring_as_cstr(key)
          IN  /\ held' = {r}
              /\ last' = Op("take", o, key,
                            IF follows THEN last.arg ELSE NoneValue, r, <<>>, NoJson,
                            IF ~follows THEN ""
                            ELSE IF last.prior = "overwrite" THEN "overwrite"
                            ELSE "insert")
    /\ UNCHANGED <<mem, objs, recent>>
    /\ UNCHANGED castVars

KeysOf ==
    /\ \E o \in 1..Len(objs), ord \in EnumOrders :
          last' = Op("keys", o, <<>>, NoneValue, NoneValue,
                     anyobj_keys(objs[o], ord), NoJson, "")
    /\ UNCHANGED <<mem, objs, held, recent>>
    /\ UNCHANGED castVars

FromJson(inputs) ==
    /\ \E j \in inputs, ord \in EnumOrders :
          LET r == from_json(j, mem, objs, ord)
          IN  /\ Len(r.mem) <= MaxCells
              /\ Len(r.objs) <= MaxObjs
              /\ mem' = r.mem
              /\ objs' = r.objs
              \* the bindings made by the conversion are the most recent ones
              /\ recent' = r.objs
              /\ held' = {r.res}
              /\ last' = Op("fromJson", 0, <<>>, NoneValue, r.res, <<>>, j, "")
    /\ UNCHANGED castVars

ParseSeed == FromJson(JsonSeeds)

ParseAny == FromJson(JsonInputs)

Next == New \/ Insert \/ Take \/ KeysOf \/ ParseSeed

Spec == Init /\ [][Next]_vars

NextJson == ParseAny

SpecJson == Init /\ [][NextJson]_vars

NextCast == ValidateCast

SpecCast == Init /\ [][NextCast]_vars

----------------------------------------------------------------------------
(* Views used by the properties                                            *)

\* What a value holds, followed through the heap to a bounded depth.
RECURSIVE Content(_, _, _, _)
Content(v, m, os, d) ==
    IF v.value = NULL \/ d = 0
    THEN [kind |-> v.type.kind, num |-> 0, bool |-> FALSE, str |-> <<>>,
          elems |-> <<>>, fields |-> <<>>]
    ELSE LET c == m[v.value]
         IN  [kind |-> v.type.kind, num |-> c.num, bool |-> c.bool, str |-> c.str,
              elems |-> [i \in 1..Len(c.elems) |-> Content(c.elems[i], m, os, d - 1)],
              fields |-> IF c.obj = 0 THEN <<>>
                         ELSE [k \in DOMAIN os[c.obj] |->
                                  Content(os[c.obj][k], m, os, d - 1)]]

KindOfJson(t) ==
    CASE t = JSON_TYPE_OBJECT -> TYPE_ANY_OBJECT
      [] t = JSON_TYPE_ARRAY -> TYPE_LIST
      [] t = JSON_TYPE_INT -> TYPE_INT
      [] t = JSON_TYPE_FLOAT -> TYPE_FLOAT
      [] t = JSON_TYPE_BOOL -> TYPE_BOOL
      [] t = JSON_TYPE_STRING -> TYPE_STRING

\* What the conversion of a JSON value holds.
RECURSIVE JsonContent(_)
JsonContent(j) ==
    [kind |-> KindOfJson(j.type),
     num |-> j.num_int,
     bool |-> j.boolean,
     str |-> IF j.string = <<>> THEN <<>> ELSE SubSeq(j.string, 1, Len(j.string) - 1),
     elems |-> [i \in 1..Len(j.array) |-> JsonContent(j.array[i])],
     fields |-> [k \in DOMAIN j.object |-> JsonContent(j.object[k])]]

Called == cast # "none"

\* Number of AnyValue owners (caller locals, list elements, object fields)
\* whose payload pointer is the address a.
OwnersOf(a) ==
    Cardinality({v \in held : v.value = a})
    + Cardinality({p \in {<<c, i>> : c \in 1..Len(mem), i \in 1..MaxArrayLen + 1} :
                      p[2] <= Len(mem[p[1]].elems) /\ mem[p[1]].elems[p[2]].value = a})
    + Cardinality({p \in {<<o, k>> : o \in 1..Len(objs), k \in Keys} :
                      p[2] \in DOMAIN objs[p[1]] /\ objs[p[1]][p[2]].value = a})

RECURSIVE DescriptorOk(_)
DescriptorOk(t) ==
    /\ (t.list_inner # <<>>) <=> (t.kind = TYPE_LIST)
    /\ (t.obj_fields # <<>>) <=> (t.kind = TYPE_OBJECT)
    /\ \A i \in 1..Len(t.list_inner) : DescriptorOk(t.list_inner[i])

ValueOk(v) ==
    /\ DescriptorOk(v.type)
    /\ (v.value = NULL) => (v.type.kind = TYPE_NONE)

StoredValues ==
    UNION {{mem[c].elems[i] : i \in 1..Len(mem[c].elems)} : c \in 1..Len(mem)}
    \cup UNION {{objs[o][k] : k \in DOMAIN objs[o]} : o \in 1..Len(objs)}

ReturnedValues == IF last.op \in {"fromJson", "take"} THEN {last.result} ELSE {}

----------------------------------------------------------------------------
(* Properties                                                              *)

\* C1: validateCast(target = Int, source = String) always takes the fatal
\* cast-mismatch path, whatever the two ptrDepth values are.
CastIntFromStringFails ==
    (Called /\ as_type.kind = TYPE_INT /\ from_type.kind = TYPE_STRING)
        => cast = "fail"

\* C2: a cast that is accepted has matching ptrDepth on both descriptors,
\* also when the two kinds are equal.
CastOkOnlyIfPtrDepthMatches ==
    (Called /\ cast = "ok") => as_type.ptr_count = from_type.ptr_count

\* C3: a cast between descriptors of the same kind and the same ptrDepth is
\* accepted, whatever their elementType and fields are.
CastSameKindSameDepthSucceeds ==
    (Called /\ as_type.kind = from_type.kind
            /\ as_type.ptr_count = from_type.ptr_count)
        => cast = "ok"

CastSameKindDifferentInnerAccepted ==
    /\ Called
    /\ as_type.kind = TYPE_LIST
    /\ from_type.kind = TYPE_LIST
    /\ as_type.ptr_count = from_type.ptr_count
    /\ as_type.list_inner # from_type.list_inner
    /\ cast = "ok"

\* C4: ownership is exclusive: no payload is pointed to by two AnyValue
\* owners at once, so a taken value and the stored one share nothing, nor do
\* an inserted value and the stored one.
ExclusiveOwnership == \A a \in 1..Len(mem) : OwnersOf(a) <= 1

\* C5: a take that directly follows an insert into the same object under
\* the same key returns a value of the inserted value's kind, holding equal
\* payload content.
InsertTakeRoundTrip ==
    (last.op = "take" /\ last.prior # "")
        => /\ last.result.type.kind = last.arg.type.kind
           /\ Content(last.result, mem, objs, Depth) = Content(last.arg, mem, objs, Depth)

RoundTripOfList ==
    /\ last.op = "take"
    /\ last.prior # ""
    /\ last.arg.type.kind = TYPE_LIST
    /\ last.result.type.kind = TYPE_LIST
    /\ Len(mem[last.result.value].elems) = 2

\* C6: every object holds, under each key, the value of the most recent
\* insert under that key and nothing else (an insert replaces the binding
\* of its key and leaves the other keys alone; take and keys remove
\* nothing), and take returns that value.
MostRecentInsertWins ==
    /\ \A o \in 1..Len(objs) : objs[o] = recent[o]
    /\ (last.op = "take" /\ dynstring_as_cstr(last.key) \in DOMAIN recent[last.obj])
          => last.result = recent[last.obj][dynstring_as_cstr(last.key)]

TakeAfterOverwrite ==
    /\ last.op = "take"
    /\ last.prior = "overwrite"
    /\ last.result = last.arg
    /\ Cardinality(DOMAIN objs[last.obj]) = 2

\* C7: a take under a key with no binding returns a value of kind None
\* with an empty payload and changes neither the object nor the heap; the
\* result is the one a take returns for a key bound to a None value.
TakeOfMissingKeyIsNone ==
    [][(last'.op = "take"
        /\ (dynstring_as_cstr(last'.key) \notin DOMAIN objs[last'.obj]
            \/ objs[last'.obj][dynstring_as_cstr(last'.key)] = NoneValue))
       => /\ last'.result.type.kind = TYPE_NONE
          /\ last'.result.value = NULL
          /\ last'.result = NoneValue
          /\ objs' = objs
          /\ mem' = mem]_vars

TookMissingKeyBesideBoundKey ==
    /\ last.op = "take"
    /\ dynstring_as_cstr(last.key) \notin DOMAIN objs[last.obj]
    /\ DOMAIN objs[last.obj] # {}
    /\ last.result.type.kind = TYPE_NONE

\* C8: the conversion of a non-empty JSON array is a List value holding the
\* conversions of the array's elements in the array's order, and its
\* elementType is the descriptor of the last converted element.
ArrayElementTypeIsLast ==
    (last.op = "fromJson" /\ last.json.type = JSON_TYPE_ARRAY
                          /\ Len(last.json.array) > 0)
        => /\ last.result.type.kind = TYPE_LIST
           /\ last.result.value # NULL
           /\ LET elems == mem[last.result.value].elems
              IN  /\ Len(elems) = Len(last.json.array)
                  /\ \A i \in 1..Len(elems) :
                        Content(elems[i], mem, objs, Depth)
                            = JsonContent(last.json.array[i])
                  /\ last.result.type.list_inner = <<elems[Len(elems)].type>>

HeterogeneousArrayConverted ==
    /\ last.op = "fromJson"
    /\ last.json.type = JSON_TYPE_ARRAY
    /\ Len(last.json.array) = 2
    /\ last.json.array[1].type = JSON_TYPE_INT
    /\ last.json.array[2].type = JSON_TYPE_STRING
    /\ last.result.type.list_inner[1].kind = TYPE_STRING

DataModelInvariants ==
    \A v \in held \cup StoredValues \cup ReturnedValues : ValueOk(v)

TookEmptyListValue ==
    /\ last.op = "take"
    /\ last.result.type.kind = TYPE_LIST
    /\ last.result.value # NULL
    /\ mem[last.result.value].elems = <<>>
    /\ \E o \in 1..Len(objs) : \E k \in DOMAIN objs[o] :
          objs[o][k].type.kind = TYPE_INT

====
